---- MODULE Spec2Model ----
(***************************************************************************)
(* WaterGuard (src/app.py): a Streamlit script that simulates a table of   *)
(* hourly water usage, labels its rows with an IsolationForest, classifies *)
(* severity, and renders a course tab, a history tab and a dashboard.      *)
(* The file holds two scripts: the full application (lines 1-1160) and a   *)
(* second variant with forecasting/robotics tabs (lines 1163-1420).        *)
(*                                                                         *)
(* Litres are kept on a 0.01 l grid: the integer 2001 stands for 20.01 l.  *)
(* daily_quota * 0.9 is 1350.0 and daily_quota * 1.1 is 1650.0000000000002 *)
(* in binary floating point; both separate the points of the 0.01 l grid   *)
(* exactly as 1350 and 1650 do.                                            *)
(***************************************************************************)
EXTENDS Integers, Sequences, FiniteSets, TLC

\* ---------------------------------------------------------------- bounds
\* days in the simulated table (the source simulates 365)
NumDays == 2
\* rows per day (the source has 24 hourly rows per day)
HoursPerDay == 2
\* longest table handed to the period grouping on its own
MaxRows == 3
\* last day stamp a row of such a table may carry
MaxDay == 5
\* days per month in such a table (calendar months have 28..31)
DaysPerMonth == 3
\* rows of the forecast frame (history plus the 30 future periods)
ForecastLen == 2
\* highest option index a quiz radio is set to (the source offers 0..3)
MaxOption == 2

\* grid points per litre
Scale == 100

\* usage_liters values a simulated row may take (0.01 l): the share of the
\* alert threshold one of the HoursPerDay rows of a day carries, and 1 l more
UsageValues == {(1350 * Scale) \div HoursPerDay, (1350 * Scale) \div HoursPerDay + Scale}
\* values handed to the severity classification on its own (0.01 l)
SeverityInputs == (1990..2010) \cup (3990..4010) \cup {0, 47500}
\* totals handed to the threshold tests on their own (0.01 l)
TotalInputs == (134990..135110) \cup (164990..165010)
\* usage values of the tables handed to the period grouping (litres)
GroupValues == {10, 20, 30}
\* yhat values the forecaster may return (0.01 l)
YhatValues == {164900, 165000, 165001, 170000}

\* ------------------------------------------------------------ pure helpers
RECURSIVE SumSeq(_)
SumSeq(s) == IF s = <<>> THEN 0 ELSE Head(s) + SumSeq(Tail(s))

\* every index from lo on, whatever the row holds
SelectIdxUnfiltered(s, v, lo) == [j \in 1..(Len(s) - lo + 1) |-> lo + j - 1]

RECURSIVE SelectIdx(_, _, _)
\* the indices i in lo..Len(s) with s[i] = v, in row order (boolean indexing)
SelectIdx(s, v, lo) ==
    IF lo > Len(s) THEN <<>>
    ELSE IF s[lo] = v THEN <<lo>> \o SelectIdx(s, v, lo + 1)
         ELSE SelectIdx(s, v, lo + 1)

Take(s, idx) == [j \in 1..Len(idx) |-> s[idx[j]]]

Max(a, b) == IF a >= b THEN a ELSE b
Min(a, b) == IF a <= b THEN a ELSE b

\* -------------------------------------------------- severity (pd.cut bins)
\* pd.cut(bins=[-inf, 20, 40, inf]) uses right-closed intervals
SeverityLowClosed(v) ==
    IF v < 20 * Scale THEN "Low"
    ELSE IF v < 40 * Scale THEN "Medium"
    ELSE "High"

Severity(v) ==
    IF v <= 20 * Scale THEN "Low"
    ELSE IF v <= 40 * Scale THEN "Medium"
    ELSE "High"

\* ----------------------------------------------------- anomaly label map
\* Series.map({1: 'Normal', -1: 'Anomaly'}); a key not in the dict gives NaN
AnomalyMapSwapped(v) ==
    IF v = 1 THEN "Anomaly" ELSE IF v = -1 THEN "Normal" ELSE "NaN"

AnomalyMap(v) ==
    IF v = 1 THEN "Normal" ELSE IF v = -1 THEN "Anomaly" ELSE "NaN"

\* ------------------------------------------------------------- thresholds
daily_quota == 1500

HighUsageInclusive(day_usage) == day_usage * 10 >= daily_quota * Scale * 9

\* day_usage > daily_quota * 0.9
HighUsage(day_usage) == day_usage * 10 > daily_quota * Scale * 9

HighRiskInclusive(yhat) == yhat * 10 >= daily_quota * Scale * 11

\* yhat > daily_quota * 1.1
HighRisk(yhat) == yhat * 10 > daily_quota * Scale * 11

\* ------------------------------------------------- forecast risk filter
\* forecast[forecast["yhat"] > daily_quota * 1.1]
RECURSIVE HighRiskRows(_)
HighRiskRows(yhat) ==
    IF yhat = <<>> THEN <<>>
    ELSE IF HighRisk(Head(yhat)) THEN <<Head(yhat)>> \o HighRiskRows(Tail(yhat))
         ELSE HighRiskRows(Tail(yhat))

\* ------------------------------------------------------- period grouping
\* timestamps are hour numbers counted from 2024-01-01 00:00
DayOf(ts) == ts \div HoursPerDay
MonthOf(ts) == DayOf(ts) \div DaysPerMonth

RECURSIVE SeqMin(_)
SeqMin(s) == IF Len(s) = 1 THEN s[1] ELSE Min(Head(s), SeqMin(Tail(s)))
RECURSIVE SeqMax(_)
SeqMax(s) == IF Len(s) = 1 THEN s[1] ELSE Max(Head(s), SeqMax(Tail(s)))

\* sum of the values of the rows whose period key is p (empty sum is 0)
PeriodSum(keys, vals, p) == SumSeq(Take(vals, SelectIdx(keys, p, 1)))

RECURSIVE DropEmpty(_, _)
DropEmpty(keys, buckets) ==
    IF buckets = <<>> THEN <<>>
    ELSE IF SelectIdx(keys, Head(buckets).period, 1) = <<>>
         THEN DropEmpty(keys, Tail(buckets))
         ELSE <<Head(buckets)>> \o DropEmpty(keys, Tail(buckets))

\* a grouping that keeps only the populated periods (groupby-like)
ResampleSumOmitEmpty(keys, vals) ==
    IF keys = <<>> THEN <<>>
    ELSE LET lo == SeqMin(keys)
             hi == SeqMax(keys)
         IN DropEmpty(keys, [j \in 1..(hi - lo + 1) |->
                 [period |-> lo + j - 1, value |-> PeriodSum(keys, vals, lo + j - 1)]])

\* a grouping whose bucket also takes the rows of the following period
ResampleSumLeaky(keys, vals) ==
    IF keys = <<>> THEN <<>>
    ELSE LET lo == SeqMin(keys)
             hi == SeqMax(keys)
         IN [j \in 1..(hi - lo + 1) |->
                 [period |-> lo + j - 1,
                  value |-> PeriodSum(keys, vals, lo + j - 1)
                            + PeriodSum(keys, vals, lo + j)]]

\* df.set_index('timestamp').resample(rule)['usage_liters'].sum().reset_index():
\* one bucket for every period from the first row's to the last row's,
\* populated or not, in chronological order; sum() of no rows is 0
ResampleSum(keys, vals) ==
    IF keys = <<>> THEN <<>>
    ELSE LET lo == SeqMin(keys)
             hi == SeqMax(keys)
         IN [j \in 1..(hi - lo + 1) |->
                 [period |-> lo + j - 1, value |-> PeriodSum(keys, vals, lo + j - 1)]]

DailyKeys(ts) == [i \in 1..Len(ts) |-> DayOf(ts[i])]
MonthlyKeys(ts) == [i \in 1..Len(ts) |-> MonthOf(ts[i])]

\* ================================================== the data pipeline
NumRows == NumDays * HoursPerDay

BaseColumns ==
    <<"timestamp", "usage_main_liters", "usage_garden_liters",
      "usage_kitchen_liters", "usage_bathroom_liters", "usage_liters", "date">>

NoFrame ==
    [columns |-> <<>>, timestamp |-> <<>>, usage_liters |-> <<>>, date |-> <<>>,
     anomaly |-> <<>>, severity |-> <<>>, time_str |-> <<>>]

\* the frame simulate_data() builds from the simulated usage values: one row
\* per hour from 2024-01-01 00:00 on, date = timestamp.dt.date
FreshFrame(usage) ==
    [columns |-> BaseColumns,
     timestamp |-> [i \in 1..Len(usage) |-> i - 1],
     usage_liters |-> usage,
     date |-> [i \in 1..Len(usage) |-> DayOf(i - 1)],
     anomaly |-> <<>>, severity |-> <<>>, time_str |-> <<>>]

\* a cache handing out the frame object the previous run already worked on
simulate_data_shared(cached, prev) ==
    IF prev.columns = <<>> THEN FreshFrame(cached) ELSE prev

\* @st.cache_data simulate_data(): every call returns its own copy of the
\* cached table, whatever an earlier run did to the copy it got
simulate_data(cached, prev) == FreshFrame(cached)

AddColumn(cols, name) ==
    IF \E i \in 1..Len(cols) : cols[i] = name THEN cols ELSE Append(cols, name)

HasColumn(frame, name) == \E i \in 1..Len(frame.columns) : frame.columns[i] = name

\* a scorer call guarded by a fallback that labels every row as an inlier
fit_predict_guarded(frame, fitted, fails) ==
    IF fails THEN [raised |-> FALSE, labels |-> [i \in 1..Len(frame.usage_liters) |-> 1]]
    ELSE [raised |-> FALSE,
          labels |-> [i \in 1..Len(frame.usage_liters) |-> fitted[frame.usage_liters[i]]]]

\* a scorer that looks at the severity column when the frame has one
fit_predict_reads_severity(frame, fitted, fails) ==
    IF fails THEN [raised |-> TRUE, labels |-> <<>>]
    ELSE [raised |-> FALSE,
          labels |-> [i \in 1..Len(frame.usage_liters) |->
                        IF frame.severity # <<>> /\ frame.severity[i] = "High"
                        THEN -1 ELSE fitted[frame.usage_liters[i]]]]

\* model.fit_predict(df[['usage_liters']]): the call is not guarded, so a
\* failure of the estimator raises; otherwise one label in {1, -1} per row,
\* computed from the usage_liters column alone
fit_predict(frame, fitted, fails) ==
    IF fails THEN [raised |-> TRUE, labels |-> <<>>]
    ELSE [raised |-> FALSE,
          labels |-> [i \in 1..Len(frame.usage_liters) |-> fitted[frame.usage_liters[i]]]]

\* df['anomaly'] = df['anomaly'].map({1: 'Normal', -1: 'Anomaly'})
AnomalyPass(frame, labels) ==
    [frame EXCEPT !.columns = AddColumn(@, "anomaly"),
                  !.anomaly = [i \in 1..Len(labels) |-> AnomalyMap(labels[i])]]

\* a severity pass that grades only the rows labelled Anomaly
SeverityPassOfAnomalies(frame) ==
    [frame EXCEPT !.columns = AddColumn(@, "severity"),
                  !.severity = [i \in 1..Len(frame.usage_liters) |->
                                  IF frame.anomaly[i] = "Anomaly"
                                  THEN Severity(frame.usage_liters[i]) ELSE "Low"]]

\* df['severity'] = pd.cut(df['usage_liters'], bins=..., labels=...)
SeverityPass(frame) ==
    [frame EXCEPT !.columns = AddColumn(@, "severity"),
                  !.severity = [i \in 1..Len(frame.usage_liters) |->
                                  Severity(frame.usage_liters[i])]]

\* a pass that writes the formatted time over the timestamp column
TimeStrPassOverwrites(frame) ==
    [frame EXCEPT !.timestamp = [i \in 1..Len(frame.timestamp) |->
                                   frame.timestamp[i] % HoursPerDay]]

\* df['time_str'] = df['timestamp'].dt.strftime('%H:%M')
TimeStrPass(frame) ==
    [frame EXCEPT !.columns = AddColumn(@, "time_str"),
                  !.time_str = [i \in 1..Len(frame.timestamp) |->
                                  frame.timestamp[i] % HoursPerDay]]

\* ======================================================== state variables
VARIABLES
    cache,      \* the table st.cache_data keeps for simulate_data()
    forest,     \* what the fitted IsolationForest predicts for a usage value
    session,    \* st.session_state
    widgets,    \* the widget values the browser holds between reruns
    df,         \* the frame the last run of the script worked on
    view,       \* what the last run of the script rendered
    scorer_may_fail, \* whether fit_predict can raise in this deployment
    fnOp,       \* the function applied last on its own
    fnIn,       \* its input
    fnOut       \* its result

vars == <<cache, forest, session, widgets, df, view, scorer_may_fail, fnOp, fnIn, fnOut>>

appVars == <<cache, forest, session, widgets, df, view, scorer_may_fail>>
fnVars == <<fnOp, fnIn, fnOut>>

\* ============================================= functions applied on their own
\* sorted tables of 1..MaxRows rows stamped at midnight of a day 0..MaxDay
GroupStamps == {d * HoursPerDay : d \in 0..MaxDay}
IsSorted(s) == \A i \in 1..(Len(s) - 1) : s[i] <= s[i + 1]
GroupTables ==
    UNION {{[ts |-> t, usage |-> u] :
              t \in {x \in [1..n -> GroupStamps] : IsSorted(x)},
              u \in [1..n -> GroupValues]} : n \in 1..MaxRows}

\* the input is drawn when the state machine starts; each action applies
\* one function to it
NoTable == [ts |-> << >>, usage |-> << >>]
FnInputs ==
    {[kind |-> "value", v |-> x, yhat |-> << >>, table |-> NoTable] : x \in SeverityInputs}
    \cup {[kind |-> "total", v |-> x, yhat |-> << >>, table |-> NoTable] : x \in TotalInputs}
    \cup {[kind |-> "forecast", v |-> 0, yhat |-> x, table |-> NoTable] :
            x \in [1..ForecastLen -> YhatValues]}
    \cup {[kind |-> "table", v |-> 0, yhat |-> << >>, table |-> x] : x \in GroupTables}

FnInit ==
    /\ fnOp = "none"
    /\ fnIn \in FnInputs
    /\ fnOut = 0

ClassifySeverity ==
    /\ fnOp = "none"
    /\ fnIn.kind = "value"
    /\ fnOut' = Severity(fnIn.v)
    /\ fnOp' = "severity"
    /\ UNCHANGED fnIn

EvaluateDayAlert ==
    /\ fnOp = "none"
    /\ fnIn.kind = "total"
    /\ fnOut' = HighUsage(fnIn.v)
    /\ fnOp' = "day_alert"
    /\ UNCHANGED fnIn

EvaluateForecastRisk ==
    /\ fnOp = "none"
    /\ fnIn.kind = "forecast"
    /\ fnOut' = HighRiskRows(fnIn.yhat)
    /\ fnOp' = "forecast_risk"
    /\ UNCHANGED fnIn

GroupDaily ==
    /\ fnOp = "none"
    /\ fnIn.kind = "table"
    /\ fnOut' = ResampleSum(DailyKeys(fnIn.table.ts), fnIn.table.usage)
    /\ fnOp' = "daily"
    /\ UNCHANGED fnIn

GroupMonthly ==
    /\ fnOp = "none"
    /\ fnIn.kind = "table"
    /\ fnOut' = ResampleSum(MonthlyKeys(fnIn.table.ts), fnIn.table.usage)
    /\ fnOp' = "monthly"
    /\ UNCHANGED fnIn

\* ============================================================ the dashboard
\* a test that asks for every row of the day to be labelled Anomaly
AnomalyInAllValues(values) ==
    Len(values) > 0 /\ \A j \in 1..Len(values) : values[j] = "Anomaly"

\* "Anomaly" in df_day["anomaly"].values
AnomalyInValues(values) == \E j \in 1..Len(values) : values[j] = "Anomaly"

NoDashboard ==
    [selected_day |-> -1, day_usage |-> 0, remaining |-> 0,
     usage_warning |-> FALSE, anomalies_csv |-> <<>>,
     df_daily |-> <<>>, df_monthly |-> <<>>,
     daily_report |-> [columns |-> <<>>, rows |-> <<>>],
     anomaly_banner |-> FALSE]

\* with top_tabs[2]: the sidebar summary, the alert, the anomalies table,
\* the three charts, the daily report and the anomaly banner
Dashboard(frame, selected_day) ==
    LET day_idx == SelectIdx(frame.date, selected_day, 1)
        day_usage == SumSeq(Take(frame.usage_liters, day_idx))
        anom_idx == SelectIdx(frame.anomaly, "Anomaly", 1)
        frame2 == TimeStrPass(frame)
    IN [frame |-> frame2,
        dash |->
          [selected_day |-> selected_day,
           day_usage |-> day_usage,
           remaining |-> Max(daily_quota * Scale - day_usage, 0),
           usage_warning |-> HighUsage(day_usage),
           anomalies_csv |-> [j \in 1..Len(anom_idx) |->
                                [timestamp |-> frame.timestamp[anom_idx[j]],
                                 usage_liters |-> frame.usage_liters[anom_idx[j]],
                                 severity |-> frame.severity[anom_idx[j]]]],
           df_daily |-> ResampleSum(DailyKeys(frame2.timestamp), frame2.usage_liters),
           df_monthly |-> ResampleSum(MonthlyKeys(frame2.timestamp), frame2.usage_liters),
           daily_report |-> [columns |-> frame.columns,
                             rows |-> [j \in 1..Len(day_idx) |->
                                         [timestamp |-> frame.timestamp[day_idx[j]],
                                          usage_liters |-> frame.usage_liters[day_idx[j]],
                                          date |-> frame.date[day_idx[j]],
                                          anomaly |-> frame.anomaly[day_idx[j]],
                                          severity |-> frame.severity[day_idx[j]]]]],
           anomaly_banner |-> AnomalyInValues(Take(frame.anomaly, day_idx))]]

\* ============================================================== the course
REWARD_FILS_PER_QUIZ == 500
\* COURSE[m]["quiz"][q]["answer"], modules and questions in list order
CourseAnswers == <<  <<2>>, <<1, 2>>, <<2>>, <<1>>  >>
LenCourse == Len(CourseAnswers)
\* every question of COURSE offers four options
NumOptions == 4

Quiz(module_idx) == CourseAnswers[module_idx + 1]
QuizName(module_idx) == module_idx
AnswerSheets(module_idx) ==
    [1..Len(Quiz(module_idx)) -> 0..Min(MaxOption, NumOptions - 1)]

DefaultSession ==
    [lang |-> "en", course_progress |-> 0, current_module |-> 0,
     quiz_scores |-> << >>, reward_claimed |-> << >>,
     rewards |-> 0, completed_quizzes |-> << >>]

InSeq(x, s) == \E i \in 1..Len(s) : s[i] = x

\* dict[key] = value
DictPut(d, k, v) == [x \in (DOMAIN d) \cup {k} |-> IF x = k THEN v ELSE d[x]]

\* The keys of a COURSE module and of a quiz question; <<"title", "ar">>
\* stands for the key "title_ar", <<"quiz">> for the key "quiz". Every
\* module and every question of COURSE has the same keys.
LangCodes == {"en", "ar", "fr"}
ModuleKeys ==
    {<<"title", l>> : l \in LangCodes} \cup {<<"content", l>> : l \in LangCodes}
    \cup {<<"minutes">>, <<"quiz">>}
QuestionKeys ==
    {<<"q", l>> : l \in LangCodes}
    \cup {<<"options">>, <<"options", "ar">>, <<"options", "fr">>, <<"answer">>}

\* m[f"title_{lang}"] if lang in m else m["title_en"]: the key of the text
\* shown for a module in the module list
module_titles(lang) ==
    IF <<lang>> \in ModuleKeys THEN <<"title", lang>> ELSE <<"title", "en">>

\* st.subheader(module[f"title_{lang}"])
module_subheader(lang) == <<"title", lang>>

\* q[f"q_{lang}"] if lang in q else q["q_en"]
question_text(lang) ==
    IF <<lang>> \in QuestionKeys THEN <<"q", lang>> ELSE <<"q", "en">>

\* q.get(f"options_{lang}", q["options"])
opts(lang) ==
    IF <<"options", lang>> \in QuestionKeys THEN <<"options", lang>> ELSE <<"options">>

NoCourse ==
    [progress |-> -1, module_idx |-> -1, quiz_msg |-> "none",
     complete_shown |-> FALSE, rewards_shown |-> -1,
     titles |-> << >>, subheader |-> << >>, question |-> << >>, options |-> << >>,
     statuses |-> << >>]

\* a status that marks the current module first
ModuleStatusCurrentFirst(idx, ss) ==
    IF idx = ss.current_module THEN "current"
    ELSE IF idx < ss.course_progress THEN "completed"
    ELSE ""

\* the status written next to module idx in the module list
ModuleStatus(idx, ss) ==
    IF idx < ss.course_progress THEN "completed"
    ELSE IF idx = ss.current_module THEN "current"
    ELSE ""

\* a count that takes every question as answered correctly
CountCorrectLenient(answers, quiz, i) == Len(quiz) - i + 1

RECURSIVE CountCorrect(_, _, _)
CountCorrect(answers, quiz, i) ==
    IF i > Len(quiz) THEN 0
    ELSE (IF answers[i] = quiz[i] THEN 1 ELSE 0) + CountCorrect(answers, quiz, i + 1)

\* a handler that sets the progress to the current module without max()
MarkCompleteHandlerNoMax(ss) ==
    [ss EXCEPT !.course_progress = ss.current_module + 1]

\* if st.button("Mark module complete")
MarkCompleteHandler(ss) ==
    [ss EXCEPT !.course_progress = Max(@, ss.current_module + 1)]

\* a handler that rewards every passing submission
SubmitQuizHandlerRegrants(ss, answers) ==
    LET module_idx == ss.current_module
        quiz == Quiz(module_idx)
        total == Len(quiz)
        correct == CountCorrect(answers, quiz, 1)
        score_pct == IF total > 0 THEN (correct * 100) \div total ELSE 0
        passed == score_pct >= 80
        ss1 == [ss EXCEPT !.quiz_scores =
                   DictPut(@, module_idx,
                           [correct |-> correct, total |-> total, pct |-> score_pct])]
    IN [passed |-> passed,
        session |->
          IF passed
          THEN [ss1 EXCEPT !.completed_quizzes = Append(@, QuizName(module_idx)),
                           !.rewards = @ + REWARD_FILS_PER_QUIZ,
                           !.reward_claimed = DictPut(@, module_idx, TRUE)]
          ELSE ss1]

\* if st.button("Submit Quiz"): score, record, reward once per quiz
SubmitQuizHandler(ss, answers) ==
    LET module_idx == ss.current_module
        quiz == Quiz(module_idx)
        total == Len(quiz)
        correct == CountCorrect(answers, quiz, 1)
        score_pct == IF total > 0 THEN (correct * 100) \div total ELSE 0
        passed == score_pct >= 80
        ss1 == [ss EXCEPT !.quiz_scores =
                   DictPut(@, module_idx,
                           [correct |-> correct, total |-> total, pct |-> score_pct])]
    IN [passed |-> passed,
        session |->
          IF passed /\ ~InSeq(QuizName(module_idx), ss1.completed_quizzes)
          THEN [ss1 EXCEPT !.completed_quizzes = Append(@, QuizName(module_idx)),
                           !.rewards = @ + REWARD_FILS_PER_QUIZ,
                           !.reward_claimed = DictPut(@, module_idx, TRUE)]
          ELSE ss1]

\* if st.session_state.current_module > 0
CanGoPrev(ss) == ss.current_module > 0

\* a guard that lets Next act on the last module too
CanGoNextInclusive(ss) == ss.current_module <= LenCourse - 1

\* if st.session_state.current_module < len(COURSE) - 1
CanGoNext(ss) == ss.current_module < LenCourse - 1

\* with top_tabs[0]: renders the course and runs the handler of the button
\* pressed in this run; rerun says the handler ended in st.rerun()
CourseTab(ss, event, answers) ==
    LET shown == [progress |-> ss.course_progress, module_idx |-> ss.current_module]
        done(s2, msg) ==
            [session |-> s2, rerun |-> FALSE,
             course |-> [progress |-> shown.progress, module_idx |-> shown.module_idx,
                         quiz_msg |-> msg,
                         complete_shown |-> s2.course_progress >= LenCourse,
                         rewards_shown |-> IF s2.course_progress >= LenCourse
                                           THEN s2.rewards ELSE -1,
                         titles |-> module_titles(ss.lang),
                         subheader |-> module_subheader(ss.lang),
                         question |-> question_text(ss.lang),
                         options |-> opts(ss.lang),
                         statuses |-> [i \in 1..LenCourse |-> ModuleStatus(i - 1, ss)]]]
        again(s2) == [session |-> s2, rerun |-> TRUE, course |-> NoCourse]
    IN CASE event = "mark" -> again(MarkCompleteHandler(ss))
         [] event = "submit" ->
              LET r == SubmitQuizHandler(ss, answers)
              IN done(r.session, IF r.passed THEN "passed" ELSE "failed")
         [] event = "prev" ->
              IF CanGoPrev(ss)
              THEN again([ss EXCEPT !.current_module = @ - 1])
              ELSE done(ss, "none")
         [] event = "next" ->
              IF CanGoNext(ss)
              THEN again([ss EXCEPT !.current_module = @ + 1])
              ELSE done(ss, "none")
         [] OTHER -> done(ss, "none")

\* ======================================================= one run of the script
Languages == {"English", "Arabic", "Francais"}

\* a toggle without the elif branch for "Français"
LangCodeNoFrench(language_selection) ==
    IF language_selection = "Arabic" THEN "ar" ELSE "en"

\* the language toggle: "العربية" -> ar, "Français" -> fr, otherwise en
LangCode(language_selection) ==
    IF language_selection = "Arabic" THEN "ar"
    ELSE IF language_selection = "Francais" THEN "fr"
    ELSE "en"

DefaultWidgets == [language_selection |-> "English", selected_day |-> NumDays - 1]

\* Lines 93-1160 top to bottom for one run: session defaults, sidebar title,
\* language toggle, simulate_data, scoring, severity, then the three tabs.
\* An exception ends the run where it is raised and Streamlit shows it in
\* place of everything the script had not rendered yet.
ScriptRun(ss, prev, cached, fitted, w, event, answers, fails) ==
    LET ss1 == [ss EXCEPT !.lang = LangCode(w.language_selection)]
        df0 == simulate_data(cached, prev)
        sc == fit_predict(df0, fitted, fails)
    IN IF sc.raised
       THEN [session |-> ss1, df |-> df0, rerun |-> FALSE,
             view |-> [scorer_failed |-> fails, error |-> "exception",
                       sidebar_title_lang |-> ss.lang, lang |-> ss1.lang,
                       rendered |-> {"sidebar_title", "language_radio"},
                       course |-> NoCourse, dash |-> NoDashboard]]
       ELSE LET df2 == SeverityPass(AnomalyPass(df0, sc.labels))
                ct == CourseTab(ss1, event, answers)
                d == Dashboard(df2, w.selected_day)
            IN IF ct.rerun
               THEN [session |-> ct.session, df |-> df2, rerun |-> TRUE,
                     view |-> [scorer_failed |-> fails, error |-> "none",
                               sidebar_title_lang |-> ss.lang, lang |-> ss1.lang,
                               rendered |-> {"sidebar_title", "language_radio"},
                               course |-> NoCourse, dash |-> NoDashboard]]
               ELSE [session |-> ct.session, df |-> d.frame, rerun |-> FALSE,
                     view |-> [scorer_failed |-> fails, error |-> "none",
                               sidebar_title_lang |-> ss.lang, lang |-> ss1.lang,
                               rendered |-> {"sidebar_title", "language_radio",
                                             "course_tab", "bahrain_tab",
                                             "dashboard_tab", "usage_summary",
                                             "raw_table"},
                               course |-> ct.course, dash |-> d.dash]]

\* a widget event: the script runs with the event, and runs once more with
\* no button pressed when the handler called st.rerun()
ScorerOutcomes == IF scorer_may_fail THEN BOOLEAN ELSE {FALSE}

Interaction(w, event, answers) ==
    \E f1 \in ScorerOutcomes :
      \E r1 \in {ScriptRun(session, df, cache, forest, w, event, answers, f1)} :
        \E f2 \in (IF r1.rerun THEN ScorerOutcomes ELSE {FALSE}) :
          \E r \in {IF r1.rerun
                    THEN ScriptRun(r1.session, r1.df, cache, forest, w, "none", << >>, f2)
                    ELSE r1} :
            /\ session' = r.session
            /\ df' = r.df
            /\ view' = r.view
            /\ widgets' = w
            /\ UNCHANGED <<cache, forest, scorer_may_fail>>

\* ------------------------------------------------------------------ actions
ChangeLanguage ==
    /\ \E l \in Languages \ {widgets.language_selection} :
         Interaction([widgets EXCEPT !.language_selection = l], "none", << >>)
    /\ UNCHANGED fnVars

SelectDay ==
    /\ \E d \in (0..(NumDays - 1)) \ {widgets.selected_day} :
         Interaction([widgets EXCEPT !.selected_day = d], "none", << >>)
    /\ UNCHANGED fnVars

MarkComplete ==
    /\ Interaction(widgets, "mark", << >>)
    /\ UNCHANGED fnVars

SubmitQuiz ==
    /\ \E answers \in AnswerSheets(session.current_module) :
         Interaction(widgets, "submit", answers)
    /\ UNCHANGED fnVars

PrevModule ==
    /\ Interaction(widgets, "prev", << >>)
    /\ UNCHANGED fnVars

NextModule ==
    /\ Interaction(widgets, "next", << >>)
    /\ UNCHANGED fnVars

\* --------------------------------------------------------------- initial states
Tables == [1..NumRows -> UsageValues]
Forests == [UsageValues -> {1, -1}]

\* the state after the first run of a new browser session
FirstRun(tables, forests, may_fail) ==
    /\ cache \in tables
    /\ forest \in forests
    /\ scorer_may_fail = may_fail
    /\ widgets = DefaultWidgets
    /\ \E f \in (IF may_fail THEN BOOLEAN ELSE {FALSE}) :
         LET r == ScriptRun(DefaultSession, NoFrame, cache, forest,
                            DefaultWidgets, "none", << >>, f)
         IN /\ session = r.session
            /\ df = r.df
            /\ view = r.view

\* one table and one fitted model for the runs that exercise the session state
UsageLow == (1350 * Scale) \div HoursPerDay
CourseTable == [i \in 1..NumRows |-> IF i = 1 THEN UsageLow + Scale ELSE UsageLow]
CourseForest == [v \in UsageValues |-> IF v = UsageLow THEN 1 ELSE -1]

\* no function is applied on its own while the application runs
FnIdle ==
    /\ fnOp = "none"
    /\ fnIn = [kind |-> "none", v |-> 0, yhat |-> << >>, table |-> NoTable]
    /\ fnOut = 0

Init == FirstRun(Tables, Forests, TRUE) /\ FnIdle
Next == ChangeLanguage \/ SelectDay
Spec == Init /\ [][Next]_vars

\* the course and its quizzes, with an estimator that does not fail
InitCourse == FirstRun({CourseTable}, {CourseForest}, FALSE) /\ FnIdle
NextCourse ==
    \/ MarkComplete
    \/ SubmitQuiz
    \/ PrevModule
    \/ NextModule
SpecCourse == InitCourse /\ [][NextCourse]_vars

\* progress and navigation next to the widgets, with an estimator that may fail
InitSession == FirstRun({CourseTable}, {CourseForest}, TRUE) /\ FnIdle
NextSession ==
    \/ ChangeLanguage
    \/ SelectDay
    \/ MarkComplete
    \/ PrevModule
    \/ NextModule
SpecSession == InitSession /\ [][NextSession]_vars

InitFn ==
    /\ FnInit
    /\ cache = CourseTable
    /\ forest = CourseForest
    /\ widgets = DefaultWidgets
    /\ session = DefaultSession
    /\ df = NoFrame
    /\ view = 0
    /\ scorer_may_fail = FALSE
NextFn ==
    \/ (ClassifySeverity /\ UNCHANGED appVars)
    \/ (EvaluateDayAlert /\ UNCHANGED appVars)
    \/ (EvaluateForecastRisk /\ UNCHANGED appVars)
    \/ (GroupDaily /\ UNCHANGED appVars)
    \/ (GroupMonthly /\ UNCHANGED appVars)
SpecFn == InitFn /\ [][NextFn]_vars

\* =================================== the second script (lines 1163-1420)
\* steps the Robotics slider offers: len(lang_texts[lang]["steps"])
NumSteps == 5

\* lang_map = {"English": "en", "العربية": "ar", "Français": "fr"}
lang_map(language_selection) ==
    CASE language_selection = "English" -> "en"
      [] language_selection = "Arabic" -> "ar"
      [] language_selection = "Francais" -> "fr"

\* set_background(image_path): try: open(...) and inject the style;
\* except FileNotFoundError: pass
set_background(found) ==
    [raised |-> FALSE, style |-> IF found THEN "background" ELSE "none"]

\* st.image(f"robotic_step_{step}.png", ...): the path is opened by
\* Streamlit inside the call, which no try/except of the script surrounds
st_image(found) ==
    [raised |-> ~found, image |-> IF found THEN "image" ELSE "none"]

\* which of the files a run reads exist while it runs
FileStates == [background : BOOLEAN, step_image : BOOLEAN]
\* what Prophet predicts for the rows of the forecast frame
Forecasts == [1..ForecastLen -> YhatValues]

VariantWidgets == [language_selection |-> "English", step |-> 1]

\* Lines 1210-1420 top to bottom for one run: session defaults, language
\* toggle, background, simulate_data, scoring, then the six tabs in order.
VariantRun(ss, prev, cached, fitted, w, files, yhat, fails) ==
    LET ss1 == [ss EXCEPT !.lang = lang_map(w.language_selection)]
        bg == set_background(files.background)
        df0 == simulate_data(cached, prev)
        sc == fit_predict(df0, fitted, fails)
        shown(error, at, parts, risk, img) ==
            [error |-> error, raised_at |-> at, lang |-> ss1.lang,
             files |-> files, step |-> w.step,
             background |-> bg.style, rendered |-> parts,
             high_risk_days |-> risk, image |-> img]
    IN IF sc.raised
       THEN [session |-> ss1, df |-> df0,
             view |-> shown("exception", "fit_predict", {"language_radio"}, 0, "none")]
       ELSE LET df1 == AnomalyPass(df0, sc.labels)
                high_risk == HighRiskRows(yhat)
                img == st_image(files.step_image)
                upto_step == {"language_radio", "course_tab", "bahrain_tab",
                              "dashboard_tab", "forecast_tab", "robotics_step"}
            IN IF img.raised
               THEN [session |-> ss1, df |-> df1,
                     view |-> shown("exception", "st_image", upto_step,
                                    Len(high_risk), "none")]
               ELSE [session |-> ss1, df |-> df1,
                     view |-> shown("none", "nowhere",
                                    upto_step \cup {"robotics_image", "robotics_info",
                                                    "sustainability_tab"},
                                    Len(high_risk), img.image)]

\* a widget event of the second script: the script runs once
VariantInteraction(w) ==
    \E fails \in ScorerOutcomes, files \in FileStates, yhat \in Forecasts :
      \E r \in {VariantRun(session, df, cache, forest, w, files, yhat, fails)} :
        /\ session' = r.session
        /\ df' = r.df
        /\ view' = r.view
        /\ widgets' = w
        /\ UNCHANGED <<cache, forest, scorer_may_fail>>

VariantChangeLanguage ==
    /\ \E l \in Languages \ {widgets.language_selection} :
         VariantInteraction([widgets EXCEPT !.language_selection = l])
    /\ UNCHANGED fnVars

VariantSlideStep ==
    /\ \E n \in (1..NumSteps) \ {widgets.step} :
         VariantInteraction([widgets EXCEPT !.step = n])
    /\ UNCHANGED fnVars

InitVariant ==
    /\ cache = CourseTable
    /\ forest = CourseForest
    /\ scorer_may_fail = FALSE
    /\ widgets = VariantWidgets
    /\ \E files \in FileStates, yhat \in Forecasts :
         LET r == VariantRun(DefaultSession, NoFrame, cache, forest,
                             VariantWidgets, files, yhat, FALSE)
         IN /\ session = r.session
            /\ df = r.df
            /\ view = r.view
    /\ FnIdle
NextVariant == VariantChangeLanguage \/ VariantSlideStep
SpecVariant == InitVariant /\ [][NextVariant]_vars

\* ==================================================================== claims

\* C1: a usage alert is raised iff the total strictly exceeds quota x ratio:
\* the dashboard warning iff day_usage > 0.9 * 1500 (1350 gives no warning,
\* 1351 gives one), a forecast day is high-risk iff yhat > 1.1 * 1500.
C1_AlertIffStrictlyAbove ==
    /\ (fnOp = "day_alert" =>
          /\ (fnOut <=> fnIn.v > 1350 * Scale)
          /\ (fnIn.v = 1350 * Scale => fnOut = FALSE)
          /\ (fnIn.v = 1351 * Scale => fnOut = TRUE))
    /\ (fnOp = "forecast_risk" =>
          /\ Len(fnOut) = Cardinality({i \in 1..Len(fnIn.yhat) :
                                          fnIn.yhat[i] > 1650 * Scale})
          /\ \A j \in 1..Len(fnOut) : fnOut[j] > 1650 * Scale)

C1_Witness ==
    /\ fnOp = "day_alert"
    /\ fnIn.v = 1350 * Scale
    /\ fnOut = FALSE

\* C2: severity is a total function of usage_liters: value <= 20 is Low,
\* 20 < value <= 40 is Medium, value > 40 is High; 20, 20.01, 40, 40.01 map
\* to Low, Medium, Medium, High.
C2_SeverityBreakpoints ==
    fnOp = "severity" =>
      /\ fnOut \in {"Low", "Medium", "High"}
      /\ (fnOut = "Low" <=> fnIn.v <= 20 * Scale)
      /\ (fnOut = "Medium" <=> (20 * Scale < fnIn.v /\ fnIn.v <= 40 * Scale))
      /\ (fnOut = "High" <=> fnIn.v > 40 * Scale)
      /\ (fnIn.v = 2000 => fnOut = "Low")
      /\ (fnIn.v = 2001 => fnOut = "Medium")
      /\ (fnIn.v = 4000 => fnOut = "Medium")
      /\ (fnIn.v = 4001 => fnOut = "High")

C2_Witness ==
    /\ fnOp = "severity"
    /\ fnIn.v = 2001
    /\ fnOut = "Medium"

\* C3: after anomaly scoring every row carries exactly one label from
\* {Normal, Anomaly}: Anomaly iff the scorer's output for the row is -1,
\* Normal for every other output of the scorer.
C3_LabelFollowsScorer ==
    view.error = "none" =>
      /\ Len(df.anomaly) = NumRows
      /\ \A i \in 1..NumRows :
           /\ df.anomaly[i] \in {"Normal", "Anomaly"}
           /\ (df.anomaly[i] = "Anomaly" <=> forest[df.usage_liters[i]] = -1)
           /\ (df.anomaly[i] = "Normal" <=> forest[df.usage_liters[i]] # -1)

C3_Witness ==
    /\ view.error = "none"
    /\ \E i, j \in 1..NumRows : df.anomaly[i] = "Anomaly" /\ df.anomaly[j] = "Normal"

\* C4: severity is derived independently of the anomaly label: a run over
\* the same usage values with any other labelling by the scorer gives every
\* row the same severity, and the scorer's labels are the same whatever the
\* severity column of the frame it is handed holds.
C4_SeverityIndependentOfLabel ==
    view.error = "none" =>
      /\ \A f2 \in Forests :
           LET alt == SeverityPass(AnomalyPass(simulate_data(cache, NoFrame),
                          fit_predict(simulate_data(cache, NoFrame), f2, FALSE).labels))
           IN \A i \in 1..NumRows :
                alt.usage_liters[i] = df.usage_liters[i] => alt.severity[i] = df.severity[i]
      /\ \A sev \in {"Low", "Medium", "High"} :
           LET graded == [simulate_data(cache, NoFrame) EXCEPT
                            !.severity = [i \in 1..NumRows |-> sev]]
           IN [i \in 1..NumRows |-> AnomalyMap(fit_predict(graded, forest, FALSE).labels[i])]
              = df.anomaly

C4_Witness ==
    /\ view.error = "none"
    /\ \E i \in 1..NumRows : df.anomaly[i] = "Anomaly"
    /\ \E f2 \in Forests : \E i \in 1..NumRows :
         /\ AnomalyMap(f2[df.usage_liters[i]]) # df.anomaly[i]
         /\ Severity(df.usage_liters[i]) = df.severity[i]

\* C5 as stated: after scoring, severity classification and the dashboard
\* computations the table returned by simulate_data has the same rows,
\* columns and values as before them.
C5_TableUntouched == df = FreshFrame(cache)

\* C5 as amended: the computations add the columns anomaly, severity and
\* time_str to the table returned by simulate_data, and change neither its
\* rows nor the values of the columns simulate_data produced.
C5_OnlyColumnsAdded ==
    /\ df.timestamp = FreshFrame(cache).timestamp
    /\ df.usage_liters = cache
    /\ df.date = FreshFrame(cache).date
    /\ (view.error = "none" =>
          df.columns = BaseColumns \o <<"anomaly", "severity", "time_str">>)
    /\ (view.error # "none" => df.columns = BaseColumns)

C5_Witness ==
    /\ view.error = "none"
    /\ HasColumn(df, "time_str")
    /\ df.usage_liters = cache
    /\ Len(df.anomaly) = NumRows

\* C6: if the scorer fails, the failure is surfaced as an error; no run ends
\* with the scorer having failed and every row labelled Normal.
C6_ScorerFailureIsLoud ==
    view.scorer_failed =>
      /\ view.error = "exception"
      /\ ~(/\ Len(df.anomaly) = NumRows
           /\ \A i \in 1..NumRows : df.anomaly[i] = "Normal")

C6_Witness ==
    /\ view.scorer_failed
    /\ view.error = "exception"
    /\ df.anomaly = << >>

\* C7: a scorer failure is fatal to the anomaly-scoring step only: in a run
\* where the scorer fails, the Course tab, the Bahrain Water tab, the daily
\* usage summary and the raw table are still rendered.
C7_FailureLeavesTheRestRendered ==
    view.scorer_failed =>
      {"course_tab", "bahrain_tab", "usage_summary", "raw_table"} \subseteq view.rendered

\* what a run with the same widget values and the same scorer outcome gives
\* in a browser session that has written nothing yet
FreshRun ==
    ScriptRun(DefaultSession, NoFrame, cache, forest, widgets, "none", << >>,
              view.scorer_failed)

GroupKeys ==
    IF fnOp = "daily" THEN DailyKeys(fnIn.table.ts) ELSE MonthlyKeys(fnIn.table.ts)

January123 ==
    [ts |-> <<0, HoursPerDay, 2 * HoursPerDay>>, usage |-> <<10, 20, 30>>]

\* C9: period grouping (resample-then-sum) returns at most one bucket per
\* period, in chronological order, one for every period that has a row, and
\* a bucket's value is the sum of usage_liters over exactly the rows whose
\* timestamp falls in its period; daily rows for Jan 1, 2, 3 with usage 10,
\* 20, 30 grouped by month give the single bucket 60.
C9_BucketIsSumOfItsRows ==
    fnOp \in {"daily", "monthly"} =>
      /\ \A j \in 1..(Len(fnOut) - 1) : fnOut[j].period < fnOut[j + 1].period
      /\ \A i \in 1..Len(GroupKeys) : \E j \in 1..Len(fnOut) : fnOut[j].period = GroupKeys[i]
      /\ \A j \in 1..Len(fnOut) :
           fnOut[j].value = SumSeq(Take(fnIn.table.usage,
                                        SelectIdx(GroupKeys, fnOut[j].period, 1)))
      /\ ((fnOp = "monthly" /\ fnIn.table = January123 /\ DaysPerMonth >= 3) =>
            fnOut = <<[period |-> 0, value |-> 60]>>)

C9_Witness ==
    /\ fnOp = "monthly"
    /\ fnIn.table = January123
    /\ Len(fnOut) = 1
    /\ fnOut[1].value = 60

C11_ExportsAreTheFilteredRows ==
    view.error = "none" =>
      LET a == view.dash.anomalies_csv
          r == view.dash.daily_report.rows
      IN /\ \A i \in 1..NumRows :
              Cardinality({j \in 1..Len(a) : a[j].timestamp = df.timestamp[i]})
                = (IF df.anomaly[i] = "Anomaly" THEN 1 ELSE 0)
         /\ \A j \in 1..Len(a) :
              /\ DOMAIN a[j] = {"timestamp", "usage_liters", "severity"}
              /\ \E i \in 1..NumRows :
                   /\ df.anomaly[i] = "Anomaly"
                   /\ a[j].timestamp = df.timestamp[i]
                   /\ a[j].severity = df.severity[i]
         /\ \A i \in 1..NumRows :
              Cardinality({j \in 1..Len(r) : r[j].timestamp = df.timestamp[i]})
                = (IF df.date[i] = view.dash.selected_day THEN 1 ELSE 0)
         /\ \A j \in 1..Len(r) :
              \E i \in 1..NumRows :
                /\ df.date[i] = view.dash.selected_day
                /\ r[j].timestamp = df.timestamp[i]
                /\ r[j].usage_liters = df.usage_liters[i]
                /\ r[j].anomaly = df.anomaly[i]

\* a run that exports some but not all rows as anomalies, one of them
\* outside the selected day, and reports the selected day's rows only
C11_Witness ==
    /\ view.error = "none"
    /\ Len(view.dash.anomalies_csv) \in 1..(NumRows - 1)
    /\ Len(view.dash.daily_report.rows) \in 1..(NumRows - 1)
    /\ \E i \in 1..NumRows :
         /\ df.anomaly[i] = "Anomaly"
         /\ df.date[i] # view.dash.selected_day
    /\ \E i \in 1..NumRows :
         /\ df.anomaly[i] = "Normal"
         /\ df.date[i] = view.dash.selected_day

\* C12 as stated: every file-not-found on a read is absorbed as 'no
\* content' and does not abort the run: with water_bg.jpg missing
\* set_background adds nothing and the run goes on, and with
\* robotic_step_<n>.png missing the Robotics tab shows no image and the run
\* goes on to the end of the script.
C12_MissingFileIsNoContent ==
    /\ (~view.files.background =>
          /\ view.background = "none"
          /\ view.raised_at # "set_background"
          /\ "course_tab" \in view.rendered)
    /\ (~view.files.step_image =>
          /\ view.image = "none"
          /\ view.error = "none"
          /\ "sustainability_tab" \in view.rendered)

\* C13: the reward of a module's quiz is granted at most once: after any
\* sequence of submissions, navigation and mark-complete presses,
\* completed_quizzes has no duplicate and rewards is 500 times its length.
C13_RewardOncePerQuiz ==
    /\ \A i, j \in 1..Len(session.completed_quizzes) :
         session.completed_quizzes[i] = session.completed_quizzes[j] => i = j
    /\ session.rewards = 500 * Len(session.completed_quizzes)

\* a quiz passed again after a later module's quiz was passed: the module
\* just passed is in completed_quizzes, and not as its newest entry
C13_Witness ==
    /\ view.course.quiz_msg = "passed"
    /\ Len(session.completed_quizzes) >= 2
    /\ \E i \in 1..(Len(session.completed_quizzes) - 1) :
         session.completed_quizzes[i] = QuizName(session.current_module)
    /\ session.rewards = 1000

\* C14: a submission passes iff correct/total*100 >= 80; for every module
\* of COURSE (quizzes of 1 or 2 questions) it passes iff every question is
\* answered with the option at index `answer`; the reward total changes
\* only in a run that reports a pass.
C14_PassIffAllCorrect ==
    [][/\ (view'.course.quiz_msg # "none" =>
             LET m == session.current_module
                 sc == session'.quiz_scores[m]
                 passed == view'.course.quiz_msg = "passed"
                 explains(answers) == CourseTab(session, "submit", answers).session = session'
             IN /\ sc.total = Len(Quiz(m))
                /\ sc.total \in {1, 2}
                /\ passed <=> (sc.correct * 100 >= 80 * sc.total)
                /\ \E answers \in AnswerSheets(m) : explains(answers)
                /\ \A answers \in AnswerSheets(m) :
                     explains(answers) =>
                       (passed <=> \A q \in 1..Len(Quiz(m)) : answers[q] = Quiz(m)[q]))
       /\ (session'.rewards # session.rewards => view'.course.quiz_msg = "passed")
      ]_vars

\* a two-question quiz submitted with one right answer is reported as not
\* passed, in a session that has earned a reward before
C14_Witness ==
    /\ view.course.quiz_msg = "failed"
    /\ Len(Quiz(session.current_module)) = 2
    /\ session.quiz_scores[session.current_module].correct = 1
    /\ session.quiz_scores[session.current_module].pct = 50
    /\ session.rewards > 0

\* C15: the language in effect is always one of en, ar, fr, and after the
\* language toggle of a run st.session_state.lang is the code of the option
\* selected in the language radio: English -> en, Arabic -> ar,
\* Francais -> fr.
C15_LangIsCodeOfSelection ==
    /\ session.lang \in {"en", "ar", "fr"}
    /\ view.lang = session.lang
    /\ (widgets.language_selection = "English" <=> session.lang = "en")
    /\ (widgets.language_selection = "Arabic" <=> session.lang = "ar")
    /\ (widgets.language_selection = "Francais" <=> session.lang = "fr")

\* a run in which the radio went from Français to العربية
C15_Witness ==
    /\ widgets.language_selection = "Arabic"
    /\ session.lang = "ar"
    /\ view.sidebar_title_lang = "fr"

\* what a press of 'Mark module complete' in the current state leads to: the
\* run that handles the press, then the run st.rerun() starts
MarkPressed ==
    LET r1 == ScriptRun(session, df, cache, forest, widgets, "mark", << >>, FALSE)
    IN IF r1.rerun
       THEN ScriptRun(r1.session, r1.df, cache, forest, widgets, "none", << >>, FALSE)
       ELSE r1

\* C16: pressing 'Mark module complete' changes progress only: it sets
\* course_progress to max(course_progress, current_module + 1) and leaves
\* rewards, completed_quizzes, reward_claimed, quiz_scores, current_module
\* and lang unchanged.
C16_MarkCompleteChangesProgressOnly ==
    \E after \in {MarkPressed.session} :
      /\ after.course_progress =
           (IF session.course_progress >= session.current_module + 1
            THEN session.course_progress ELSE session.current_module + 1)
      /\ after.rewards = session.rewards
      /\ after.completed_quizzes = session.completed_quizzes
      /\ after.reward_claimed = session.reward_claimed
      /\ after.quiz_scores = session.quiz_scores
      /\ after.current_module = session.current_module
      /\ after.lang = session.lang

\* a module marked complete by a user who holds a reward and a score, and
\* whose progress is already beyond an earlier module
C16_Witness ==
    /\ session.course_progress = 2
    /\ session.current_module = 1
    /\ session.rewards = 500
    /\ 0 \in DOMAIN session.quiz_scores
    /\ view.course.quiz_msg = "none"

\* C17: the anomaly banner is shown in a run iff at least one row of the
\* selected day is labelled Anomaly, whether or not the day's total is
\* above the high-usage threshold.
C17_BannerIffAnomalyOnSelectedDay ==
    view.error = "none" =>
      /\ view.dash.selected_day = widgets.selected_day
      /\ view.dash.anomaly_banner <=>
           \E i \in 1..NumRows :
             /\ df.date[i] = widgets.selected_day
             /\ df.anomaly[i] = "Anomaly"

\* the banner without the high-usage warning, while another day has no
\* anomaly and would show no banner
C17_Witness ==
    /\ view.error = "none"
    /\ view.dash.anomaly_banner
    /\ ~view.dash.usage_warning
    /\ \E d \in 0..(NumDays - 1) :
         \A i \in 1..NumRows : df.date[i] = d => df.anomaly[i] = "Normal"

\* C18 as stated: when the selected language is ar or fr, the module titles
\* in the module list and the text of every quiz question are shown in that
\* language (title_<lang>, q_<lang>); every entry of COURSE has a text for
\* each of the three languages, so the English text is never the fallback.
C18_TitlesAndQuestionsLocalised ==
    (view.error = "none" /\ view.lang \in {"ar", "fr"}) =>
      /\ view.course.titles = <<"title", view.lang>>
      /\ view.course.question = <<"q", view.lang>>

\* C19 as stated: in every run the sidebar title is in the language
\* selected in the language radio of that same run, which is the language
\* the tabs of that run are rendered in.
C19_SidebarTitleInSelectedLanguage ==
    "sidebar_title" \in view.rendered =>
      /\ view.lang = session.lang
      /\ view.sidebar_title_lang = view.lang

\* what the Course tab of the last run shows follows course_progress
CompletionShownByProgress ==
    /\ view.course.complete_shown <=> session.course_progress >= Len(CourseAnswers)
    /\ \A idx \in 0..(Len(CourseAnswers) - 1) :
         view.course.statuses[idx + 1] = "completed" <=> idx < session.course_progress

\* C20: the course-complete section is shown in a run iff course_progress >=
\* len(COURSE), and a module is shown as Completed iff its index is below
\* course_progress; course_progress changes only by a press of 'Mark module
\* complete' and reaches len(COURSE) only by a press while the last module
\* is current, whatever quizzes were passed.
C20_CompletionOnlyByMarkingLastModule ==
    /\ CompletionShownByProgress
    /\ [][/\ CompletionShownByProgress'
          /\ (session'.course_progress # session.course_progress =>
                /\ MarkComplete
                /\ session'.course_progress = session.current_module + 1
                /\ session'.completed_quizzes = session.completed_quizzes)
          /\ ((session.course_progress < Len(CourseAnswers)
               /\ session'.course_progress >= Len(CourseAnswers)) =>
                session.current_module = Len(CourseAnswers) - 1)
         ]_vars

\* the course completed, and shown as completed, without any quiz passed
C20_Witness ==
    /\ view.course.complete_shown
    /\ view.course.statuses = <<"completed", "completed", "completed", "completed">>
    /\ session.course_progress = 4
    /\ session.completed_quizzes = << >>
    /\ session.rewards = 0

\* every quiz passed while the course is not complete and no module is
\* shown as completed
C20_AllQuizzesPassedNotComplete ==
    /\ Len(session.completed_quizzes) = 4
    /\ session.course_progress = 0
    /\ ~view.course.complete_shown
    /\ \A i \in 1..4 : view.course.statuses[i] # "completed"

\* C21: after any sequence of 'Previous module' and 'Next module' presses
\* 0 <= current_module <= len(COURSE) - 1, so COURSE[current_module] and the
\* module shown are valid; Previous at module 0 and Next at the last module
\* leave current_module unchanged, and elsewhere they move one module.
C21_CurrentModuleStaysInRange ==
    /\ session.current_module \in 0..(Len(CourseAnswers) - 1)
    /\ view.course.module_idx = session.current_module
    /\ \E prev \in {CourseTab(session, "prev", << >>).session},
          next \in {CourseTab(session, "next", << >>).session} :
         /\ prev.current_module =
              (IF session.current_module = 0 THEN 0 ELSE session.current_module - 1)
         /\ next.current_module =
              (IF session.current_module = Len(CourseAnswers) - 1
               THEN Len(CourseAnswers) - 1 ELSE session.current_module + 1)

\* the last module reached by Next presses and shown, where a further Next
\* changes nothing
C21_Witness ==
    /\ session.current_module = 3
    /\ view.course.module_idx = 3
    /\ CourseTab(session, "next", << >>).session = session
    /\ ~CourseTab(session, "next", << >>).rerun

\* C22: course_progress never decreases and always satisfies
\* 0 <= course_progress <= len(COURSE), whatever order modules are visited
\* and marked complete in.
C22_ProgressMonotoneAndBounded ==
    /\ session.course_progress \in 0..Len(CourseAnswers)
    /\ [][/\ session'.course_progress >= session.course_progress
          /\ session'.course_progress \in 0..Len(CourseAnswers)
         ]_vars

\* the whole course marked complete and the first module current again,
\* where a press of 'Mark module complete' would keep the progress at 4
C22_Witness ==
    /\ session.course_progress = 4
    /\ session.current_module = 0
    /\ view.course.progress = 4
    /\ MarkCompleteHandler(session).course_progress = 4

====
